---- MODULE Spec2Model ----
(***************************************************************************)
(* Model of scripts/MutationAnalyzer.py: the CIGAR walk of one read, the   *)
(* per-read local tallies, the merge into the analyzer's global tally, the *)
(* batched run over a SAM stream, the frequency table and the enrichment.  *)
(*                                                                         *)
(* Python values are represented as follows.                               *)
(*   dict        a function whose DOMAIN is the set of keys                *)
(*   str         a sequence of one-character strings                       *)
(*   None / x    <<>> / <<x>>  (an optional value)                         *)
(*   float       the exact rational [n, d] in lowest terms, d > 0          *)
(*   raise E     a result whose err field names the exception              *)
(***************************************************************************)
EXTENDS Integers, Sequences, FiniteSets, TLC

VARIABLES
    \* ---- MutationAnalyzer instance (src/scripts/MutationAnalyzer.py:29-34)
    reference_sequence,
    batch_size,
    position_coverage,
    mutation_counts,
    base_mutation_counts,
    \* ---- process_large_dataset / process_batch
    samfile,            \* the reads of the SAM stream, in file order
    read_idx,           \* number of reads already taken from the stream
    reads_data,         \* the batch being assembled / processed
    results,            \* one slot per read of the batch, filled by the pool
    batch_number,
    merge_idx,          \* next element of results to merge
    pc,                 \* position of the scheduler thread
    mutation_frequencies,
    \* ---- process_read_data of one read, operation by operation
    read_data,
    cigar,
    cigar_idx,
    ref_pos,
    query_pos,
    local_position_coverage,
    local_mutation_counts,
    local_base_mutation_counts,
    walk_pc,
    \* ---- merge_results applied to a collection of partial tallies
    merged,
    \* ---- calculate_enrichment
    frequencies1,
    frequencies2,
    enrichment

analyzerVars == <<reference_sequence, batch_size, position_coverage,
                  mutation_counts, base_mutation_counts>>
runVars      == <<samfile, read_idx, reads_data, results, batch_number,
                  merge_idx, pc, mutation_frequencies>>
walkVars     == <<read_data, cigar, cigar_idx, ref_pos, query_pos,
                  local_position_coverage, local_mutation_counts,
                  local_base_mutation_counts, walk_pc>>
enrichVars   == <<frequencies1, frequencies2, enrichment>>
vars == <<analyzerVars, runVars, walkVars, merged, enrichVars>>

----------------------------------------------------------------------------
(* Bounds of the model *)

MaxQueryLen == 2   \* longest query sequence of the walk specification
MaxOps      == 2   \* most CIGAR operations of one read
MaxOpLen    == 2   \* longest CIGAR operation
MaxReads    == 3   \* longest SAM stream
MaxBatch    == 3   \* largest batch_size

----------------------------------------------------------------------------
(* Python primitives *)

None == <<>>
Some(x) == <<x>>
Val(o) == o[1]

EmptyDict == <<>>

Get(d, k, default) == IF k \in DOMAIN d THEN d[k] ELSE default

Put(d, k, v) == [x \in (DOMAIN d) \cup {k} |-> IF x = k THEN v ELSE d[x]]

\* s[i] of a Python str: negative indices count from the end, and an index
\* outside -len..len-1 raises IndexError (reported as <<>>).
PyIndex(s, i) ==
    IF i >= 0 /\ i < Len(s) THEN Some(s[i + 1])
    ELSE IF i < 0 /\ -i <= Len(s) THEN Some(s[Len(s) + i + 1])
    ELSE None

SeqsUpTo(S, n) == UNION {[1..k -> S] : k \in 0..n}

RECURSIVE SumOver(_, _)
SumOver(f, S) ==
    IF S = {} THEN 0
    ELSE LET x == CHOOSE y \in S : TRUE IN f[x] + SumOver(f, S \ {x})

----------------------------------------------------------------------------
(* The four-key table of increment_mutation_counts / merge_results *)

BaseKeys == {"A", "T", "C", "G"}
ZeroBaseCounts == [b \in BaseKeys |-> 0]

----------------------------------------------------------------------------
(* parse_cigar *)

cigar_ops == [c \in {0, 1, 2, 4, 5} |->
                 CASE c = 0 -> "M" [] c = 1 -> "I" [] c = 2 -> "D"
                   [] c = 4 -> "S" [] c = 5 -> "H"]

\* The list comprehension raises KeyError at the first unknown code.
parse_cigar(cigar_tuple) ==
    IF \E i \in 1..Len(cigar_tuple) : cigar_tuple[i][1] \notin DOMAIN cigar_ops
    THEN [err |-> "KeyError_cigar_ops", value |-> <<>>]
    ELSE [err |-> "none",
          value |-> [i \in 1..Len(cigar_tuple) |->
                        <<cigar_ops[cigar_tuple[i][1]], cigar_tuple[i][2]>>]]

----------------------------------------------------------------------------
(* increment_mutation_counts, update_mutation_data *)

\* Variant: the per-base increment of line 156 is missing.
increment_mutation_counts_NoPerBase(rp, query_base, l_mut, l_base) ==
    LET position == rp + 1
        mut1  == Put(l_mut, position, Get(l_mut, position, 0) + 1)
        base1 == IF position \in DOMAIN l_base THEN l_base
                 ELSE Put(l_base, position, ZeroBaseCounts)
    IN  [err |-> "none", mut |-> mut1, base |-> base1]

increment_mutation_counts(rp, query_base, l_mut, l_base) ==
    LET position == rp + 1
        mut1  == Put(l_mut, position, Get(l_mut, position, 0) + 1)
        base1 == IF position \in DOMAIN l_base THEN l_base
                 ELSE Put(l_base, position, ZeroBaseCounts)
    IN  IF query_base \notin DOMAIN base1[position]
        THEN [err |-> "KeyError_base", mut |-> mut1, base |-> base1]
        ELSE [err |-> "none", mut |-> mut1,
              base |-> [base1 EXCEPT ![position][query_base] = @ + 1]]

\* Variant: coverage is counted only when the bases agree.
update_mutation_data_CoverageOnMatchOnly(rp, query_base, l_cov, l_mut, l_base) ==
    LET cov1 == Put(l_cov, rp + 1, Get(l_cov, rp + 1, 0) + 1)
        refb == PyIndex(reference_sequence, rp)
    IN  IF refb = None
        THEN [err |-> "IndexError", cov |-> l_cov, mut |-> l_mut, base |-> l_base]
        ELSE IF query_base # Val(refb)
        THEN LET position == rp + 1
                 mut1  == Put(l_mut, position, Get(l_mut, position, 0) + 1)
                 base1 == IF position \in DOMAIN l_base THEN l_base
                          ELSE Put(l_base, position, ZeroBaseCounts)
             IN  IF query_base \notin DOMAIN base1[position]
                 THEN [err |-> "KeyError_base", cov |-> l_cov,
                       mut |-> mut1, base |-> base1]
                 ELSE [err |-> "none", cov |-> l_cov, mut |-> mut1,
                       base |-> [base1 EXCEPT ![position][query_base] = @ + 1]]
        ELSE [err |-> "none", cov |-> cov1, mut |-> l_mut, base |-> l_base]

update_mutation_data(rp, query_base, l_cov, l_mut, l_base) ==
    LET cov1 == Put(l_cov, rp + 1, Get(l_cov, rp + 1, 0) + 1)
        refb == PyIndex(reference_sequence, rp)
    IN  IF refb = None
        THEN [err |-> "IndexError", cov |-> cov1, mut |-> l_mut, base |-> l_base]
        ELSE IF query_base # Val(refb)
        THEN LET r == increment_mutation_counts(rp, query_base, l_mut, l_base)
             IN  [err |-> r.err, cov |-> cov1, mut |-> r.mut, base |-> r.base]
        ELSE [err |-> "none", cov |-> cov1, mut |-> l_mut, base |-> l_base]

----------------------------------------------------------------------------
(* handle_cigar_operation *)

\* The body of "for _ in range(length)" of the "M" branch, n steps to go.
RECURSIVE MatchLoop(_, _, _, _, _, _, _)
MatchLoop(n, rp, qp, query_sequence, l_cov, l_mut, l_base) ==
    IF n <= 0
    THEN [err |-> "none", query_pos |-> qp, ref_pos |-> rp,
          cov |-> l_cov, mut |-> l_mut, base |-> l_base]
    ELSE IF rp < Len(reference_sequence) /\ qp < Len(query_sequence)
    THEN LET u == update_mutation_data(rp, query_sequence[qp + 1],
                                       l_cov, l_mut, l_base)
         IN  IF u.err # "none"
             THEN [err |-> u.err, query_pos |-> qp, ref_pos |-> rp,
                   cov |-> u.cov, mut |-> u.mut, base |-> u.base]
             ELSE MatchLoop(n - 1, rp + 1, qp + 1, query_sequence,
                            u.cov, u.mut, u.base)
    ELSE MatchLoop(n - 1, rp + 1, qp + 1, query_sequence, l_cov, l_mut, l_base)

\* Variant: a soft clip does not advance the query cursor.
handle_cigar_operation_SoftClipIgnored(operation, length, rp, qp, query_sequence, l_cov, l_mut, l_base) ==
    IF operation = "M"
    THEN MatchLoop(length, rp, qp, query_sequence, l_cov, l_mut, l_base)
    ELSE IF operation \in {"I", "H"}
    THEN [err |-> "none", query_pos |-> qp + length, ref_pos |-> rp,
          cov |-> l_cov, mut |-> l_mut, base |-> l_base]
    ELSE IF operation = "D"
    THEN [err |-> "none", query_pos |-> qp, ref_pos |-> rp + length,
          cov |-> l_cov, mut |-> l_mut, base |-> l_base]
    ELSE [err |-> "none", query_pos |-> qp, ref_pos |-> rp,
          cov |-> l_cov, mut |-> l_mut, base |-> l_base]

\* Variant: a deletion moves the reference cursor back.
handle_cigar_operation_DeletionMovesBack(operation, length, rp, qp, query_sequence, l_cov, l_mut, l_base) ==
    IF operation = "M"
    THEN MatchLoop(length, rp, qp, query_sequence, l_cov, l_mut, l_base)
    ELSE IF operation \in {"I", "S", "H"}
    THEN [err |-> "none", query_pos |-> qp + length, ref_pos |-> rp,
          cov |-> l_cov, mut |-> l_mut, base |-> l_base]
    ELSE IF operation = "D"
    THEN [err |-> "none", query_pos |-> qp, ref_pos |-> rp - length,
          cov |-> l_cov, mut |-> l_mut, base |-> l_base]
    ELSE [err |-> "none", query_pos |-> qp, ref_pos |-> rp,
          cov |-> l_cov, mut |-> l_mut, base |-> l_base]

handle_cigar_operation(operation, length, rp, qp, query_sequence, l_cov, l_mut, l_base) ==
    IF operation = "M"
    THEN MatchLoop(length, rp, qp, query_sequence, l_cov, l_mut, l_base)
    ELSE IF operation \in {"I", "S", "H"}
    THEN [err |-> "none", query_pos |-> qp + length, ref_pos |-> rp,
          cov |-> l_cov, mut |-> l_mut, base |-> l_base]
    ELSE IF operation = "D"
    THEN [err |-> "none", query_pos |-> qp, ref_pos |-> rp + length,
          cov |-> l_cov, mut |-> l_mut, base |-> l_base]
    ELSE [err |-> "none", query_pos |-> qp, ref_pos |-> rp,
          cov |-> l_cov, mut |-> l_mut, base |-> l_base]

----------------------------------------------------------------------------
(* process_read_data *)

ReadRecord(qs, start, ct, name) ==
    [query_sequence |-> qs, reference_start |-> start,
     cigartuples |-> ct, query_name |-> name]

EmptyTally == <<EmptyDict, EmptyDict, EmptyDict>>

\* The "for operation, length in cigar" loop from the i-th operation on.
RECURSIVE CigarLoop(_, _, _, _, _, _, _, _)
CigarLoop(ops, i, rp, qp, query_sequence, l_cov, l_mut, l_base) ==
    IF i > Len(ops)
    THEN [err |-> "none", value |-> <<l_cov, l_mut, l_base>>]
    ELSE LET h == handle_cigar_operation(ops[i][1], ops[i][2], rp, qp,
                                         query_sequence, l_cov, l_mut, l_base)
         IN  IF h.err # "none"
             THEN [err |-> h.err, value |-> EmptyTally]
             ELSE CigarLoop(ops, i + 1, h.ref_pos, h.query_pos, query_sequence,
                            h.cov, h.mut, h.base)

\* Variant: only the query sequence is checked for None; parse_cigar(None)
\* then raises TypeError.
process_read_data_QueryCheckOnly(rd) ==
    IF rd.query_sequence = None
    THEN [err |-> "none", value |-> EmptyTally]
    ELSE IF rd.cigartuples = None
    THEN [err |-> "TypeError", value |-> EmptyTally]
    ELSE LET parsed == parse_cigar(Val(rd.cigartuples))
         IN  IF parsed.err # "none"
             THEN [err |-> parsed.err, value |-> EmptyTally]
             ELSE CigarLoop(parsed.value, 1, rd.reference_start, 0,
                            Val(rd.query_sequence),
                            EmptyDict, EmptyDict, EmptyDict)

process_read_data(rd) ==
    IF rd.query_sequence = None \/ rd.cigartuples = None
    THEN [err |-> "none", value |-> EmptyTally]
    ELSE LET parsed == parse_cigar(Val(rd.cigartuples))
         IN  IF parsed.err # "none"
             THEN [err |-> parsed.err, value |-> EmptyTally]
             ELSE CigarLoop(parsed.value, 1, rd.reference_start, 0,
                            Val(rd.query_sequence),
                            EmptyDict, EmptyDict, EmptyDict)

----------------------------------------------------------------------------
(* merge_results: the global tally after folding one partial tally in.     *)
(* Each loop adds, key by key, into the global dict; a key occurs once in  *)
(* a dict, so the loop is the pointwise sum over the partial's keys.       *)

\* merge_results on a tally g = <<coverage, mutations, per-base>>.
MergeInto(g, batch_results) ==
    LET l_cov  == batch_results[1]
        l_mut  == batch_results[2]
        l_base == batch_results[3]
        g_base == [p \in (DOMAIN g[3]) \cup (DOMAIN l_base) |->
                      Get(g[3], p, ZeroBaseCounts)]
    IN  << [p \in (DOMAIN g[1]) \cup (DOMAIN l_cov) |->
               Get(g[1], p, 0) + Get(l_cov, p, 0)],
           [p \in (DOMAIN g[2]) \cup (DOMAIN l_mut) |->
               Get(g[2], p, 0) + Get(l_mut, p, 0)],
           [p \in DOMAIN g_base |->
               IF p \in DOMAIN l_base
               THEN [b \in DOMAIN g_base[p] |->
                        g_base[p][b] + Get(l_base[p], b, 0)]
               ELSE g_base[p]] >>

GlobalTally == <<position_coverage, mutation_counts, base_mutation_counts>>

\* Variant: the coverage of a partial tally overwrites the global entry.
merge_results_Overwrites(batch_results) ==
    LET g == MergeInto(GlobalTally, batch_results)
    IN  << [p \in DOMAIN g[1] |->
               IF p \in DOMAIN batch_results[1] THEN batch_results[1][p]
               ELSE position_coverage[p]],
           g[2], g[3] >>

\* Variant: every covered position gets a mutation_counts entry, 0 at first.
merge_results_SetsDefaultMutations(batch_results) ==
    LET g == MergeInto(GlobalTally, batch_results)
    IN  << g[1], [p \in DOMAIN g[1] |-> Get(g[2], p, 0)], g[3] >>

merge_results(batch_results) == MergeInto(GlobalTally, batch_results)

----------------------------------------------------------------------------
(* Floats: the percentages are kept as exact rationals in lowest terms *)

RECURSIVE GCD(_, _)
GCD(a, b) == IF b = 0 THEN a ELSE GCD(b, a % b)

Abs(x) == IF x < 0 THEN -x ELSE x

Rat(n, d) == LET g == GCD(Abs(n), d) IN [n |-> n \div g, d |-> d \div g]

Zero == [n |-> 0, d |-> 1]

RAdd(x, y) == Rat(x.n * y.d + y.n * x.d, x.d * y.d)

RSub(x, y) == Rat(x.n * y.d - y.n * x.d, x.d * y.d)

----------------------------------------------------------------------------
(* get_base_mutation_percentages, calculate_mutation_frequencies *)

FrequencyKeys == {"Template_Base", "Total", "A", "T", "C", "G"}

get_base_mutation_percentages(pos) ==
    LET total_reads == Get(position_coverage, pos, 0)
        mutations   == Get(mutation_counts, pos, 0)
        overall_percentage ==
            IF total_reads > 0 THEN Rat(mutations * 100, total_reads) ELSE Zero
        base_percentages ==
            [base \in {"A", "T", "C", "G"} |->
                IF total_reads > 0
                THEN Rat(Get(Get(base_mutation_counts, pos, EmptyDict), base, 0)
                           * 100, total_reads)
                ELSE Zero]
        template_base == Val(PyIndex(reference_sequence, pos - 1))
    IN  [key \in FrequencyKeys |->
            IF key = "Template_Base" THEN template_base
            ELSE IF key = "Total" THEN overall_percentage
            ELSE base_percentages[key]]

\* Variant: range(len(reference)) instead of range(1, len(reference) + 1).
calculate_mutation_frequencies_ZeroBased ==
    [pos \in 0..(Len(reference_sequence) - 1) |->
        get_base_mutation_percentages(pos)]

calculate_mutation_frequencies ==
    [pos \in 1..Len(reference_sequence) |-> get_base_mutation_percentages(pos)]

----------------------------------------------------------------------------
(* calculate_enrichment *)

\* Variant: the two percentages are added.
calculate_enrichment_Adds(f1, f2) ==
    IF \E pos \in DOMAIN f1 : pos \notin DOMAIN f2
    THEN [err |-> "KeyError_pos", value |-> EmptyDict]
    ELSE [err |-> "none",
          value |-> [pos \in DOMAIN f1 |->
              [key \in (DOMAIN f1[pos]) \cup {"Template_Base"} |->
                  IF key = "Template_Base"
                  THEN Get(f1[pos], "Template_Base", "")
                  ELSE RAdd(Get(f1[pos], key, Zero), Get(f2[pos], key, Zero))]]]

\* Variant: Template_Base is taken from the second table.
calculate_enrichment_TemplateFromSecond(f1, f2) ==
    IF \E pos \in DOMAIN f1 : pos \notin DOMAIN f2
    THEN [err |-> "KeyError_pos", value |-> EmptyDict]
    ELSE [err |-> "none",
          value |-> [pos \in DOMAIN f1 |->
              [key \in (DOMAIN f1[pos]) \cup {"Template_Base"} |->
                  IF key = "Template_Base"
                  THEN Get(f2[pos], "Template_Base", "")
                  ELSE RSub(Get(f1[pos], key, Zero), Get(f2[pos], key, Zero))]]]

\* Variant: frequencies2[pos][key] instead of frequencies2[pos].get(key, 0).
calculate_enrichment_NoDefault(f1, f2) ==
    IF \E pos \in DOMAIN f1 : pos \notin DOMAIN f2
    THEN [err |-> "KeyError_pos", value |-> EmptyDict]
    ELSE IF \E pos \in DOMAIN f1 :
               \E key \in DOMAIN f1[pos] :
                   key # "Template_Base" /\ key \notin DOMAIN f2[pos]
    THEN [err |-> "KeyError_key", value |-> EmptyDict]
    ELSE [err |-> "none",
          value |-> [pos \in DOMAIN f1 |->
              [key \in (DOMAIN f1[pos]) \cup {"Template_Base"} |->
                  IF key = "Template_Base"
                  THEN Get(f1[pos], "Template_Base", "")
                  ELSE RSub(f1[pos][key], f2[pos][key])]]]

calculate_enrichment(f1, f2) ==
    IF \E pos \in DOMAIN f1 : pos \notin DOMAIN f2
    THEN [err |-> "KeyError_pos", value |-> EmptyDict]
    ELSE [err |-> "none",
          value |-> [pos \in DOMAIN f1 |->
              [key \in (DOMAIN f1[pos]) \cup {"Template_Base"} |->
                  IF key = "Template_Base"
                  THEN Get(f1[pos], "Template_Base", "")
                  ELSE RSub(Get(f1[pos], key, Zero), Get(f2[pos], key, Zero))]]]

----------------------------------------------------------------------------
(* Idle values of the variable groups a specification does not use *)

IdleRun ==
    /\ samfile = <<>> /\ read_idx = 0 /\ reads_data = <<>> /\ results = <<>>
    /\ batch_number = 1 /\ merge_idx = 0 /\ pc = "idle"
    /\ mutation_frequencies = None

IdleWalk ==
    /\ read_data = None /\ cigar = <<>> /\ cigar_idx = 0
    /\ ref_pos = 0 /\ query_pos = 0
    /\ local_position_coverage = EmptyDict
    /\ local_mutation_counts = EmptyDict
    /\ local_base_mutation_counts = EmptyDict
    /\ walk_pc = "idle"

IdleEnrich ==
    /\ frequencies1 = EmptyDict /\ frequencies2 = EmptyDict /\ enrichment = None

EmptyGlobalTally ==
    /\ position_coverage = EmptyDict
    /\ mutation_counts = EmptyDict
    /\ base_mutation_counts = EmptyDict

----------------------------------------------------------------------------
(* SpecWalk: process_read_data of one read, one CIGAR operation per step   *)

WalkReference == <<"A", "C">>

\* Scenario C of the design: soft clip 5, match 4, insertion 2, from
\* reference position 10, on a query of 11 bases.
ScenarioCReference == [i \in 1..14 |-> "A"]
ScenarioCRead ==
    ReadRecord(Some(<<"C","C","C","C","C","A","A","A","A","C","C">>), 10,
               Some(<< <<4, 5>>, <<0, 4>>, <<1, 2>> >>), "scenario_c")

WalkQueries == SeqsUpTo({"A", "N"}, MaxQueryLen)
WalkStarts  == {-(Len(WalkReference) + 1), -1} \cup (0..Len(WalkReference))
WalkCigars  == SeqsUpTo((DOMAIN cigar_ops) \X (1..MaxOpLen), MaxOps)

WalkReads ==
    {ReadRecord(Some(q), s, Some(c), "r") :
        q \in WalkQueries, s \in WalkStarts, c \in WalkCigars}
    \cup {ReadRecord(None, 0, Some(<< <<0, 1>> >>), "r"),
          ReadRecord(Some(<<"A">>), 0, None, "r"),
          ReadRecord(Some(<<"A">>), 0, Some(<< <<3, 1>>, <<0, 1>> >>), "r")}

WalkInit ==
    /\ \/ reference_sequence = WalkReference /\ read_data \in WalkReads
       \/ reference_sequence = ScenarioCReference /\ read_data = ScenarioCRead
    /\ batch_size = 1
    /\ EmptyGlobalTally
    /\ cigar = <<>> /\ cigar_idx = 0 /\ ref_pos = 0 /\ query_pos = 0
    /\ local_position_coverage = EmptyDict
    /\ local_mutation_counts = EmptyDict
    /\ local_base_mutation_counts = EmptyDict
    /\ walk_pc = "start"
    /\ IdleRun /\ merged = {} /\ IdleEnrich

\* Lines 76-84: the None check, the empty local tallies, parse_cigar.
WalkBegin ==
    /\ walk_pc = "start"
    /\ IF read_data.query_sequence = None \/ read_data.cigartuples = None
       THEN walk_pc' = "returned" /\ UNCHANGED <<cigar, cigar_idx, ref_pos>>
       ELSE LET parsed == parse_cigar(Val(read_data.cigartuples))
            IN  IF parsed.err # "none"
                THEN /\ walk_pc' = parsed.err
                     /\ UNCHANGED <<cigar, cigar_idx, ref_pos>>
                ELSE /\ walk_pc' = "walking"
                     /\ cigar' = parsed.value
                     /\ cigar_idx' = 1
                     /\ ref_pos' = read_data.reference_start
    /\ UNCHANGED <<query_pos, local_position_coverage, local_mutation_counts,
                   local_base_mutation_counts, read_data>>
    /\ UNCHANGED <<analyzerVars, runVars, merged, enrichVars>>

\* Lines 86-90: one iteration of the loop over the operations.
WalkOperation ==
    /\ walk_pc = "walking"
    /\ cigar_idx <= Len(cigar)
    /\ LET h == handle_cigar_operation(cigar[cigar_idx][1], cigar[cigar_idx][2],
                    ref_pos, query_pos, Val(read_data.query_sequence),
                    local_position_coverage, local_mutation_counts,
                    local_base_mutation_counts)
       IN  /\ local_position_coverage' = h.cov
           /\ local_mutation_counts' = h.mut
           /\ local_base_mutation_counts' = h.base
           /\ IF h.err # "none"
              THEN /\ walk_pc' = h.err
                   /\ UNCHANGED <<cigar_idx, ref_pos, query_pos>>
              ELSE /\ walk_pc' = "walking"
                   /\ cigar_idx' = cigar_idx + 1
                   /\ ref_pos' = h.ref_pos
                   /\ query_pos' = h.query_pos
    /\ UNCHANGED <<read_data, cigar>>
    /\ UNCHANGED <<analyzerVars, runVars, merged, enrichVars>>

\* Line 92: the loop is over, the three local dicts are returned.
WalkReturn ==
    /\ walk_pc = "walking"
    /\ cigar_idx > Len(cigar)
    /\ walk_pc' = "returned"
    /\ UNCHANGED <<read_data, cigar, cigar_idx, ref_pos, query_pos,
                   local_position_coverage, local_mutation_counts,
                   local_base_mutation_counts>>
    /\ UNCHANGED <<analyzerVars, runVars, merged, enrichVars>>

WalkNext == WalkBegin \/ WalkOperation \/ WalkReturn

SpecWalk == WalkInit /\ [][WalkNext]_vars

----------------------------------------------------------------------------
(* Spec: process_large_dataset over a SAM stream, then                     *)
(* calculate_mutation_frequencies (setup_analyzer)                         *)

Reference == <<"A", "C", "G", "T">>

ReadA        == ReadRecord(Some(<<"A","C","G","T">>), 0, Some(<< <<0, 4>> >>), "a")
ReadB        == ReadRecord(Some(<<"A","C","C","T">>), 0, Some(<< <<0, 4>> >>), "b")
ReadNoQuery  == ReadRecord(None, 0, Some(<< <<0, 4>> >>), "no_query")
ReadNoCigar  == ReadRecord(Some(<<"A","C","G","T">>), 0, None, "no_cigar")
ReadN        == ReadRecord(Some(<<"A","N","G","T">>), 0, Some(<< <<0, 4>> >>), "n")
ReadNegative == ReadRecord(Some(<<"G","A">>), -1, Some(<< <<0, 2>> >>), "neg")
ReadSkip     == ReadRecord(Some(<<"A","C">>), 0,
                           Some(<< <<3, 1>>, <<0, 2>> >>), "skip")
ReadGapped   == ReadRecord(Some(<<"T","C","A","T","T">>), 1,
                           Some(<< <<4, 1>>, <<0, 2>>, <<1, 1>>, <<2, 1>>,
                                   <<0, 2>> >>), "gapped")

ReadPool == {ReadA, ReadB, ReadNoQuery, ReadNoCigar, ReadN, ReadNegative,
             ReadSkip, ReadGapped}

Pending == [err |-> "pending", value |-> EmptyTally]

Init ==
    /\ reference_sequence = Reference
    /\ batch_size \in 1..MaxBatch
    /\ EmptyGlobalTally
    /\ samfile \in SeqsUpTo(ReadPool, MaxReads)
    /\ read_idx = 0
    /\ reads_data = <<>>
    /\ results = <<>>
    /\ batch_number = 1
    /\ merge_idx = 0
    /\ pc = "read"
    /\ mutation_frequencies = None
    /\ IdleWalk /\ merged = {} /\ IdleEnrich

\* Variant: "len(reads_data) > self.batch_size" in line 186.
ReadNext_BatchOffByOne ==
    /\ pc = "read"
    /\ read_idx < Len(samfile)
    /\ read_idx' = read_idx + 1
    /\ reads_data' = Append(reads_data, samfile[read_idx + 1])
    /\ IF Len(reads_data') > batch_size
       THEN /\ pc' = "pool_map"
            /\ results' = [i \in 1..Len(reads_data') |-> Pending]
       ELSE /\ pc' = "read"
            /\ UNCHANGED results
    /\ UNCHANGED <<batch_number, merge_idx, samfile, mutation_frequencies>>
    /\ UNCHANGED <<analyzerVars, walkVars, merged, enrichVars>>

\* Lines 184-187: the next read of the stream is appended to reads_data; a
\* full batch is handed to process_batch, whose pool.map dispatches it.
ReadNext ==
    /\ pc = "read"
    /\ read_idx < Len(samfile)
    /\ read_idx' = read_idx + 1
    /\ reads_data' = Append(reads_data, samfile[read_idx + 1])
    /\ IF Len(reads_data') >= batch_size
       THEN /\ pc' = "pool_map"
            /\ results' = [i \in 1..Len(reads_data') |-> Pending]
       ELSE /\ pc' = "read"
            /\ UNCHANGED results
    /\ UNCHANGED <<batch_number, merge_idx, samfile, mutation_frequencies>>
    /\ UNCHANGED <<analyzerVars, walkVars, merged, enrichVars>>

\* Variant: the "if reads_data" of line 190 is missing; a remainder smaller
\* than batch_size is never processed.
EndOfStream_DropsRemainder ==
    /\ pc = "read"
    /\ read_idx = Len(samfile)
    /\ pc' = "finished"
    /\ UNCHANGED <<samfile, read_idx, reads_data, results, batch_number,
                   merge_idx, mutation_frequencies>>
    /\ UNCHANGED <<analyzerVars, walkVars, merged, enrichVars>>

\* Lines 190-192: the stream is exhausted; a non-empty remainder is one
\* more batch, otherwise the run is finished.
EndOfStream ==
    /\ pc = "read"
    /\ read_idx = Len(samfile)
    /\ IF reads_data # <<>>
       THEN /\ pc' = "pool_map"
            /\ results' = [i \in 1..Len(reads_data) |-> Pending]
       ELSE /\ pc' = "finished"
            /\ UNCHANGED results
    /\ UNCHANGED <<samfile, read_idx, reads_data, batch_number, merge_idx,
                   mutation_frequencies>>
    /\ UNCHANGED <<analyzerVars, walkVars, merged, enrichVars>>

\* Variant: the worker adds its tally to the analyzer's dicts itself.
Worker_WritesGlobal(i) ==
    /\ pc = "pool_map"
    /\ results[i] = Pending
    /\ results' = [results EXCEPT ![i] = process_read_data(reads_data[i])]
    /\ LET g == MergeInto(GlobalTally, process_read_data(reads_data[i]).value)
       IN  /\ position_coverage' = g[1]
           /\ mutation_counts' = g[2]
           /\ base_mutation_counts' = g[3]
    /\ UNCHANGED <<reference_sequence, batch_size>>
    /\ UNCHANGED <<samfile, read_idx, reads_data, batch_number, merge_idx, pc,
                   mutation_frequencies>>
    /\ UNCHANGED <<walkVars, merged, enrichVars>>

\* Line 204, in a pool process: process_read_data of the i-th read of the
\* batch, on the worker's own copy of the analyzer.
Worker(i) ==
    /\ pc = "pool_map"
    /\ results[i] = Pending
    /\ results' = [results EXCEPT ![i] = process_read_data(reads_data[i])]
    /\ UNCHANGED <<samfile, read_idx, reads_data, batch_number, merge_idx, pc,
                   mutation_frequencies>>
    /\ UNCHANGED <<analyzerVars, walkVars, merged, enrichVars>>

\* Variant: the results are taken as soon as one worker has finished.
MapReturn_NoBarrier ==
    /\ pc = "pool_map"
    /\ \E i \in 1..Len(results) : results[i] # Pending
    /\ IF \E i \in 1..Len(results) : results[i].err \notin {"none", "pending"}
       THEN pc' = "raised" /\ UNCHANGED merge_idx
       ELSE pc' = "merge" /\ merge_idx' = 1
    /\ UNCHANGED <<samfile, read_idx, reads_data, results, batch_number,
                   mutation_frequencies>>
    /\ UNCHANGED <<analyzerVars, walkVars, merged, enrichVars>>

\* Variant: a worker's exception is swallowed and the batch is merged.
MapReturn_SkipsFailures ==
    /\ pc = "pool_map"
    /\ \A i \in 1..Len(results) : results[i] # Pending
    /\ pc' = "merge" /\ merge_idx' = 1
    /\ UNCHANGED <<samfile, read_idx, reads_data, results, batch_number,
                   mutation_frequencies>>
    /\ UNCHANGED <<analyzerVars, walkVars, merged, enrichVars>>

\* Line 204: pool.map returns once every read of the batch has a result,
\* and re-raises a worker's exception in the scheduler thread.
MapReturn ==
    /\ pc = "pool_map"
    /\ \A i \in 1..Len(results) : results[i] # Pending
    /\ IF \E i \in 1..Len(results) : results[i].err # "none"
       THEN pc' = "raised" /\ UNCHANGED merge_idx
       ELSE pc' = "merge" /\ merge_idx' = 1
    /\ UNCHANGED <<samfile, read_idx, reads_data, results, batch_number,
                   mutation_frequencies>>
    /\ UNCHANGED <<analyzerVars, walkVars, merged, enrichVars>>

\* Lines 205-206: one iteration of "for batch_results in results".
MergeNext ==
    /\ pc = "merge"
    /\ merge_idx <= Len(results)
    /\ LET g == merge_results(results[merge_idx].value)
       IN  /\ position_coverage' = g[1]
           /\ mutation_counts' = g[2]
           /\ base_mutation_counts' = g[3]
    /\ merge_idx' = merge_idx + 1
    /\ UNCHANGED <<reference_sequence, batch_size>>
    /\ UNCHANGED <<samfile, read_idx, reads_data, results, batch_number, pc,
                   mutation_frequencies>>
    /\ UNCHANGED <<walkVars, merged, enrichVars>>

\* Variant: "reads_data = []" of line 188 is missing.
BatchDone_KeepsBuffer ==
    /\ pc = "merge"
    /\ merge_idx > Len(results)
    /\ results' = <<>>
    /\ batch_number' = batch_number + 1
    /\ merge_idx' = 0
    /\ pc' = "read"
    /\ UNCHANGED <<samfile, read_idx, reads_data, mutation_frequencies>>
    /\ UNCHANGED <<analyzerVars, walkVars, merged, enrichVars>>

\* Lines 188-189: process_batch has returned; the buffer is emptied.
BatchDone ==
    /\ pc = "merge"
    /\ merge_idx > Len(results)
    /\ reads_data' = <<>>
    /\ results' = <<>>
    /\ batch_number' = batch_number + 1
    /\ merge_idx' = 0
    /\ pc' = "read"
    /\ UNCHANGED <<samfile, read_idx, mutation_frequencies>>
    /\ UNCHANGED <<analyzerVars, walkVars, merged, enrichVars>>

\* Lines 286-287: setup_analyzer computes the table after the run.
CalculateMutationFrequencies ==
    /\ pc = "finished"
    /\ mutation_frequencies' = Some(calculate_mutation_frequencies)
    /\ pc' = "done"
    /\ UNCHANGED <<samfile, read_idx, reads_data, results, batch_number,
                   merge_idx>>
    /\ UNCHANGED <<analyzerVars, walkVars, merged, enrichVars>>

Next ==
    \/ ReadNext
    \/ EndOfStream
    \/ \E i \in 1..Len(results) : Worker(i)
    \/ MapReturn
    \/ MergeNext
    \/ BatchDone
    \/ CalculateMutationFrequencies

Spec == Init /\ [][Next]_vars

----------------------------------------------------------------------------
(* SpecMerge: merge_results applied to a fixed collection of partial       *)
(* tallies, in every order                                                 *)

MaxPartials == 3

GoodReads == ReadPool \ {ReadN, ReadSkip}

\* The tally left by process_read_data and merge_results over the reads rs,
\* one read after the other, starting from the tally g.
RECURSIVE FoldReads(_, _)
FoldReads(g, rs) ==
    IF rs = <<>> THEN g
    ELSE FoldReads(MergeInto(g, process_read_data(Head(rs)).value), Tail(rs))

MergeInit ==
    /\ reference_sequence = Reference
    /\ batch_size = 1
    /\ samfile \in SeqsUpTo(GoodReads, 1)       \* the reads merged before
    /\ LET g == FoldReads(EmptyTally, samfile)
       IN  /\ position_coverage = g[1]
           /\ mutation_counts = g[2]
           /\ base_mutation_counts = g[3]
    /\ read_idx = Len(samfile)
    /\ reads_data \in SeqsUpTo(GoodReads, MaxPartials)
    /\ results = [i \in 1..Len(reads_data) |-> Pending]
    /\ batch_number = 1
    /\ merge_idx = 0
    /\ pc = "partials"
    /\ mutation_frequencies = None
    /\ merged = {}
    /\ IdleWalk /\ IdleEnrich

\* The partial tallies of the collection, one per read (line 204).
CollectPartials ==
    /\ pc = "partials"
    /\ results' = [i \in 1..Len(reads_data) |-> process_read_data(reads_data[i])]
    /\ pc' = "merge_any"
    /\ UNCHANGED <<samfile, read_idx, reads_data, batch_number, merge_idx,
                   mutation_frequencies>>
    /\ UNCHANGED <<analyzerVars, walkVars, merged, enrichVars>>

\* merge_results of any partial tally not merged yet.
MergeAny(i) ==
    /\ pc = "merge_any"
    /\ i \notin merged
    /\ LET g == merge_results(results[i].value)
       IN  /\ position_coverage' = g[1]
           /\ mutation_counts' = g[2]
           /\ base_mutation_counts' = g[3]
    /\ merged' = merged \cup {i}
    /\ UNCHANGED <<reference_sequence, batch_size>>
    /\ UNCHANGED <<runVars, walkVars, enrichVars>>

MergeNextAny == CollectPartials \/ \E i \in 1..Len(results) : MergeAny(i)

SpecMerge == MergeInit /\ [][MergeNextAny]_vars

----------------------------------------------------------------------------
(* SpecEnrich: run_analysis, lines 311-318: two analyzers on the same      *)
(* reference, then calculate_enrichment of their tables.  The run of an    *)
(* analyzer is the one of Spec, taken here in one step on a stream without *)
(* failing reads.                                                          *)

MaxEnrichReads == 2

EnrichInit ==
    /\ reference_sequence = Reference
    /\ batch_size = 1
    /\ EmptyGlobalTally
    /\ samfile = <<>> /\ read_idx = 0 /\ reads_data = <<>> /\ results = <<>>
    /\ batch_number = 1 /\ merge_idx = 0
    /\ pc = "analyzer1"
    /\ mutation_frequencies = None
    /\ merged = {}
    /\ IdleWalk /\ IdleEnrich

\* Lines 285-287 for one dataset; the table goes to frequencies1 (line 311)
\* or frequencies2 (line 314).
SetupAnalyzer(which) ==
    /\ pc = which
    /\ UNCHANGED <<reference_sequence, batch_size>>
    /\ \E stream \in SeqsUpTo(GoodReads, MaxEnrichReads) :
          LET g == FoldReads(EmptyTally, stream)
          IN  /\ samfile' = stream
              /\ read_idx' = Len(stream)
              /\ position_coverage' = g[1]
              /\ mutation_counts' = g[2]
              /\ base_mutation_counts' = g[3]
    /\ mutation_frequencies' = Some(calculate_mutation_frequencies')
    /\ IF which = "analyzer1"
       THEN /\ frequencies1' = calculate_mutation_frequencies'
            /\ pc' = "analyzer2"
            /\ UNCHANGED frequencies2
       ELSE /\ frequencies2' = calculate_mutation_frequencies'
            /\ pc' = "enrichment"
            /\ UNCHANGED frequencies1
    /\ UNCHANGED <<reads_data, results, batch_number, merge_idx, merged,
                   enrichment>>
    /\ UNCHANGED walkVars

SetupAnalyzer1 == SetupAnalyzer("analyzer1")

SetupAnalyzer2 == SetupAnalyzer("analyzer2")

\* Line 317.
CalculateEnrichment ==
    /\ pc = "enrichment"
    /\ enrichment' = Some(calculate_enrichment(frequencies1, frequencies2))
    /\ pc' = "enriched"
    /\ UNCHANGED <<frequencies1, frequencies2, merged>>
    /\ UNCHANGED <<samfile, read_idx, reads_data, results, batch_number,
                   merge_idx, mutation_frequencies>>
    /\ UNCHANGED <<analyzerVars, walkVars>>

EnrichNext == SetupAnalyzer1 \/ SetupAnalyzer2 \/ CalculateEnrichment

SpecEnrich == EnrichInit /\ [][EnrichNext]_vars

----------------------------------------------------------------------------
(* Properties of the batched run (Spec)                                    *)

PartialOk(r) == r.err = "none"

\* C1: at every position of the global tally, and of every partial tally a
\* worker has returned, the mismatch count is at most the coverage (an
\* absent entry reads as 0).
C1_MismatchesWithinCoverage ==
    /\ \A p \in DOMAIN mutation_counts :
          mutation_counts[p] <= Get(position_coverage, p, 0)
    /\ \A i \in DOMAIN results :
          \A p \in DOMAIN results[i].value[2] :
              results[i].value[2][p] <= Get(results[i].value[1], p, 0)

\* A mismatch has been merged at a position that two reads cover.
C1_Witness ==
    /\ pc = "merge"
    /\ \E p \in DOMAIN mutation_counts :
          mutation_counts[p] >= 1 /\ Get(position_coverage, p, 0) >= 2

ReadFails(rd) == process_read_data(rd).err # "none"

\* C2: a run that completes leaves the tally of the reads of the stream
\* folded in one by one (the run with batch_size 1), whatever batch_size is,
\* and the table computed from it; a run ends by an exception exactly when
\* some read of the stream fails, whatever batch_size is.
C2_BatchSizeInvariance ==
    /\ pc \in {"finished", "done"} =>
          /\ GlobalTally = FoldReads(EmptyTally, samfile)
          /\ \A k \in 1..Len(samfile) : ~ReadFails(samfile[k])
    /\ pc = "done" =>
          Val(mutation_frequencies) = calculate_mutation_frequencies
    /\ pc = "raised" => \E k \in 1..Len(samfile) : ReadFails(samfile[k])

\* A completed run whose stream length is not a multiple of batch_size.
C2_Witness ==
    /\ pc = "done"
    /\ batch_size = 2
    /\ Len(samfile) = 3
    /\ \E p \in DOMAIN position_coverage : position_coverage[p] = 3

\* C4 (as claimed): no run is ended by the per-base lookup of a query base
\* outside {A,T,C,G}.
C4_NonACGTBaseNeverAborts ==
    ~(pc = "raised" /\ \E i \in DOMAIN results : results[i].err = "KeyError_base")

\* C5: at every position of the global tally, and of every partial tally a
\* worker has returned, the mismatch count is the sum of the four per-base
\* counts; and in the frequency table the four per-base percentages sum to
\* the total percentage.
C5_MismatchesArePerBaseSum ==
    /\ \A p \in (DOMAIN mutation_counts) \cup (DOMAIN base_mutation_counts) :
          Get(mutation_counts, p, 0)
            = SumOver(Get(base_mutation_counts, p, ZeroBaseCounts), BaseKeys)
    /\ \A i \in DOMAIN results :
          PartialOk(results[i]) =>
              \A p \in (DOMAIN results[i].value[2]) \cup (DOMAIN results[i].value[3]) :
                  Get(results[i].value[2], p, 0)
                    = SumOver(Get(results[i].value[3], p, ZeroBaseCounts), BaseKeys)
    /\ LET t == calculate_mutation_frequencies
       IN  \A pos \in DOMAIN t :
              RAdd(RAdd(t[pos]["A"], t[pos]["T"]), RAdd(t[pos]["C"], t[pos]["G"]))
                = t[pos]["Total"]

\* Two reads with different mismatching bases at one position are merged.
C5_Witness ==
    \E p \in DOMAIN base_mutation_counts :
        /\ base_mutation_counts[p]["A"] >= 1
        /\ base_mutation_counts[p]["C"] >= 1
        /\ Get(mutation_counts, p, 0) >= 2

ReadAbsent(rd) == rd.query_sequence = None \/ rd.cigartuples = None

\* C8: a read without query sequence or without operation list gives the
\* empty partial tally and no error, and merging that tally leaves the
\* global tally as it was.
C8_AbsentReadContributesNothing ==
    /\ [](\A i \in DOMAIN results :
             (results[i] # Pending /\ ReadAbsent(reads_data[i]))
                 => results[i] = [err |-> "none", value |-> EmptyTally])
    /\ [][(/\ pc = "merge"
           /\ merge_idx <= Len(results)
           /\ merge_idx' = merge_idx + 1
           /\ ReadAbsent(reads_data[merge_idx]))
              => GlobalTally' = GlobalTally]_vars

\* The tally of an absent read has been merged into a non-empty tally.
C8_Witness ==
    /\ pc = "merge"
    /\ merge_idx >= 2
    /\ ReadAbsent(reads_data[merge_idx - 1])
    /\ position_coverage # EmptyDict

PercentKeys == {"Total", "A", "T", "C", "G"}

\* C9: in every state the frequency table has the positions 1..len(reference),
\* each row carries the reference base of its position, and a position
\* without coverage has Total, A, T, C and G all 0; the table setup_analyzer
\* returns is that table.
C9_FrequencyTableCoversReference ==
    LET t == calculate_mutation_frequencies
    IN  /\ DOMAIN t = 1..Len(reference_sequence)
        /\ \A pos \in DOMAIN t :
              /\ DOMAIN t[pos] = FrequencyKeys
              /\ t[pos]["Template_Base"] = reference_sequence[pos]
              /\ Get(position_coverage, pos, 0) = 0 =>
                    \A key \in PercentKeys : t[pos][key] = Zero
        /\ pc = "done" => Val(mutation_frequencies) = t

\* A returned table with an uncovered position and a mutated covered one.
C9_Witness ==
    /\ pc = "done"
    /\ \E pos \in 1..Len(reference_sequence) : pos \notin DOMAIN position_coverage
    /\ \E pos \in 1..Len(reference_sequence) :
          Val(mutation_frequencies)[pos]["Total"] # Zero

----------------------------------------------------------------------------
(* Properties of the walk of one read (SpecWalk)                           *)

\* C6 (as claimed): the walk raises no error and every position that
\* receives coverage lies in 1..len(reference).
C6_OnlyInBoundsStepsTallied ==
    /\ walk_pc # "IndexError"
    /\ \A p \in DOMAIN local_position_coverage :
          p \in 1..Len(reference_sequence)

\* The sum of the lengths of the first n operations whose kind is in kinds.
RECURSIVE AdvanceSum(_, _, _)
AdvanceSum(ops, n, kinds) ==
    IF n = 0 THEN 0
    ELSE (IF ops[n][1] \in kinds THEN ops[n][2] ELSE 0)
           + AdvanceSum(ops, n - 1, kinds)

RefBefore(ops, k)   == read_data.reference_start
                         + AdvanceSum(ops, k - 1, {"M", "D"})
QueryBefore(ops, k) == AdvanceSum(ops, k - 1, {"M", "I", "S", "H"})

\* The (reference position, query offset) pairs the Match steps of the
\* first n operations traverse.
Traversed(ops, n) ==
    UNION {{<<RefBefore(ops, k) + j, QueryBefore(ops, k) + j>> :
               j \in 0..(ops[k][2] - 1)} :
           k \in {i \in 1..n : ops[i][1] = "M"}}

\* The pairs among them that pass the bounds check of line 114.
Tallied(ops, n) ==
    {x \in Traversed(ops, n) :
        x[1] < Len(reference_sequence)
          /\ x[2] < Len(Val(read_data.query_sequence))}

\* C7: after each operation the cursors are the start values advanced by the
\* lengths of the preceding operations (ref_pos by Match and Deletion,
\* query_pos by Match, Insertion, SoftClip and HardClip); coverage is given
\* exactly at the reference positions Match steps traverse (and the bounds
\* check admits), and a mismatch is recorded exactly where the query base at
\* the paired query offset differs from the reference base.  Scenario C
\* covers the reference positions 10-13 with the query offsets 5-8.
C7_CursorsFollowOperations ==
    /\ walk_pc \in {"walking", "returned"} /\ ~ReadAbsent(read_data) =>
          LET n == cigar_idx - 1
              q == Val(read_data.query_sequence)
              T == Tallied(cigar, n)
          IN  /\ ref_pos = RefBefore(cigar, n + 1)
              /\ query_pos = QueryBefore(cigar, n + 1)
              /\ DOMAIN local_position_coverage = {x[1] + 1 : x \in T}
              /\ DOMAIN local_mutation_counts =
                    {x[1] + 1 : x \in {y \in T :
                        q[y[2] + 1] # Val(PyIndex(reference_sequence, y[1]))}}
    /\ walk_pc = "returned" /\ read_data = ScenarioCRead =>
          /\ DOMAIN local_position_coverage = 11..14
          /\ local_mutation_counts = EmptyDict
          /\ ref_pos = 14 /\ query_pos = 11

\* Scenario C has been walked to its end.
C7_Witness ==
    /\ walk_pc = "returned"
    /\ read_data = ScenarioCRead
    /\ DOMAIN local_position_coverage = {11, 12, 13, 14}

----------------------------------------------------------------------------
(* Properties of the enrichment (SpecEnrich)                               *)

\* C10: calculate_enrichment of a frequency table with itself has the
\* positions of the table, Total, A, T, C and G equal to 0 at every position,
\* and the Template_Base of the table at every position.
C10_SelfEnrichmentIsZero ==
    (pc = "enriched" /\ frequencies1 = frequencies2) =>
        LET e == Val(enrichment)
        IN  /\ e.err = "none"
            /\ DOMAIN e.value = DOMAIN frequencies1
            /\ \A pos \in DOMAIN e.value :
                  /\ DOMAIN e.value[pos] = FrequencyKeys
                  /\ \A key \in PercentKeys : e.value[pos][key] = Zero
                  /\ e.value[pos]["Template_Base"]
                       = frequencies1[pos]["Template_Base"]

\* A table with a non-zero percentage has been compared with itself.
C10_Witness ==
    /\ pc = "enriched"
    /\ frequencies1 = frequencies2
    /\ \E pos \in DOMAIN frequencies1 : frequencies1[pos]["Total"] # Zero

----------------------------------------------------------------------------
(* Properties of the merge (SpecMerge)                                     *)

\* The partial tallies with index in S folded into g in ascending order.
RECURSIVE FoldPartials(_, _)
FoldPartials(g, S) ==
    IF S = {} THEN g
    ELSE LET i == CHOOSE x \in S : \A y \in S : x <= y
         IN  FoldPartials(MergeInto(g, results[i].value), S \ {i})

\* C3: from the same starting tally, whatever the order in which partial
\* tallies of the collection have been merged, the global tally (coverage,
\* mismatches, per-base counts) is the one their merge in ascending order
\* gives.
C3_MergeIsOrderIndependent ==
    pc = "merge_any" =>
        GlobalTally = FoldPartials(FoldReads(EmptyTally, samfile), merged)

\* Three different partial tallies have been merged into a non-empty tally.
C3_Witness ==
    /\ pc = "merge_any"
    /\ samfile # <<>>
    /\ merged = {1, 2, 3}
    /\ results[1] # results[2] /\ results[2] # results[3] /\ results[1] # results[3]
    /\ \E p \in DOMAIN position_coverage : position_coverage[p] >= 3

----------------------------------------------------------------------------
(* SpecTables: calculate_enrichment on two tables given by the caller,     *)
(* which need not come from the same reference nor have the same keys      *)

\* A row with the given template base, Total and A equal to total, the
\* other percentages 0, restricted to the given column keys.
TableRow(tb, total, keys) ==
    [key \in keys |->
        IF key = "Template_Base" THEN tb
        ELSE IF key \in {"Total", "A"} THEN total
        ELSE Zero]

TableRows ==
    {TableRow(tb, total, keys) :
        tb \in {"A", "C"},
        total \in {Zero, Rat(50, 1)},
        keys \in {FrequencyKeys, FrequencyKeys \ {"A"}}}

TableDomains == {{1}, {1, 2}}

Tables == UNION {[D -> TableRows] : D \in TableDomains}

TablesInit ==
    /\ reference_sequence = Reference
    /\ batch_size = 1
    /\ EmptyGlobalTally
    /\ samfile = <<>> /\ read_idx = 0 /\ reads_data = <<>> /\ results = <<>>
    /\ batch_number = 1 /\ merge_idx = 0
    /\ pc = "enrichment"
    /\ mutation_frequencies = None
    /\ merged = {}
    /\ IdleWalk
    /\ frequencies1 \in Tables
    /\ frequencies2 \in Tables
    /\ enrichment = None

SpecTables == TablesInit /\ [][CalculateEnrichment]_vars

----------------------------------------------------------------------------
(* Properties of calculate_enrichment on given tables (SpecTables)         *)

FullRows(f) == \A pos \in DOMAIN f : DOMAIN f[pos] = FrequencyKeys

\* C11: for two tables with the same positions (and complete rows), the
\* result has those positions and, at each, Total, A, T, C and G equal to
\* the first table's value minus the second's, and the Template_Base of the
\* first table.
C11_EnrichmentIsDifference ==
    (/\ pc = "enriched"
     /\ DOMAIN frequencies1 = DOMAIN frequencies2
     /\ FullRows(frequencies1) /\ FullRows(frequencies2)) =>
        LET e == Val(enrichment)
        IN  /\ e.err = "none"
            /\ DOMAIN e.value = DOMAIN frequencies1
            /\ \A pos \in DOMAIN e.value :
                  /\ DOMAIN e.value[pos] = FrequencyKeys
                  /\ \A key \in PercentKeys :
                        e.value[pos][key]
                          = RSub(frequencies1[pos][key], frequencies2[pos][key])
                  /\ e.value[pos]["Template_Base"]
                       = frequencies1[pos]["Template_Base"]

\* Two complete tables that differ in template base and in Total at a
\* position have been compared.
C11_Witness ==
    /\ pc = "enriched"
    /\ DOMAIN frequencies1 = DOMAIN frequencies2
    /\ FullRows(frequencies1) /\ FullRows(frequencies2)
    /\ \E pos \in DOMAIN frequencies1 :
          /\ frequencies1[pos]["Template_Base"] # frequencies2[pos]["Template_Base"]
          /\ frequencies1[pos]["Total"] = Zero
          /\ frequencies2[pos]["Total"] # Zero
          /\ Val(enrichment).value[pos]["Total"].n < 0

RowOf(f, pos) == Get(f, pos, EmptyDict)

\* C18 (as claimed): the call raises no error, and every position and every
\* column key present in either table is in the result, with the first
\* table's value (0 when missing) minus the second's (0 when missing).
C18_MissingKeysReadAsZero ==
    pc = "enriched" =>
        LET e == Val(enrichment)
        IN  /\ e.err = "none"
            /\ \A pos \in (DOMAIN frequencies1) \cup (DOMAIN frequencies2) :
                  /\ pos \in DOMAIN e.value
                  /\ \A key \in ((DOMAIN RowOf(frequencies1, pos))
                                   \cup (DOMAIN RowOf(frequencies2, pos)))
                                 \ {"Template_Base"} :
                        /\ key \in DOMAIN e.value[pos]
                        /\ e.value[pos][key]
                             = RSub(Get(RowOf(frequencies1, pos), key, Zero),
                                    Get(RowOf(frequencies2, pos), key, Zero))

\* C18 (amended): the call raises KeyError exactly when a position of the
\* first table is missing in the second; otherwise the result has the
\* positions of the first table and, at each, the column keys of the first
\* table's row (and Template_Base), each with the first table's value minus
\* the second's, 0 standing for a key the second table's row lacks.
\* Positions and keys that only the second table has are not in the result.
C18_ZeroOnlyForKeysMissingInSecond ==
    pc = "enriched" =>
        LET e == Val(enrichment)
        IN  /\ e.err = "none" <=> DOMAIN frequencies1 \subseteq DOMAIN frequencies2
            /\ e.err # "none" => e.err = "KeyError_pos"
            /\ e.err = "none" =>
                  /\ DOMAIN e.value = DOMAIN frequencies1
                  /\ \A pos \in DOMAIN e.value :
                        /\ DOMAIN e.value[pos]
                             = (DOMAIN frequencies1[pos]) \cup {"Template_Base"}
                        /\ \A key \in (DOMAIN frequencies1[pos]) \ {"Template_Base"} :
                              e.value[pos][key]
                                = RSub(frequencies1[pos][key],
                                       Get(frequencies2[pos], key, Zero))

\* A key with a non-zero value in the first table's row and missing in the
\* second table's row has been subtracted.
C18_Witness ==
    /\ pc = "enriched"
    /\ Val(enrichment).err = "none"
    /\ \E pos \in DOMAIN frequencies1 :
          /\ "A" \in DOMAIN frequencies1[pos]
          /\ "A" \notin DOMAIN frequencies2[pos]
          /\ frequencies1[pos]["A"] # Zero
          /\ Val(enrichment).value[pos]["A"] = frequencies1[pos]["A"]

----------------------------------------------------------------------------
(* Properties of the scheduling of the batched run (Spec)                  *)

\* The reads of the batches process_batch has returned from.
ReadsOfDoneBatches == read_idx - Len(reads_data)

\* The reads whose partial tally has been merged.
ReadsMerged == ReadsOfDoneBatches + (IF pc = "merge" THEN merge_idx - 1 ELSE 0)

StreamPrefix(n) == SubSeq(samfile, 1, n)

\* C12: batches follow one another in stream order.  While reads are taken
\* from the stream no batch is in process and the tally holds exactly the
\* reads of the earlier batches; the merge of a batch starts only when every
\* worker of the batch has a result; during it the tally holds exactly the
\* stream prefix merged so far; a read is taken from the stream only
\* between batches, and a result is produced only for the current batch.
C12_BatchesAreSequential ==
    /\ [](/\ reads_data = SubSeq(samfile, ReadsOfDoneBatches + 1, read_idx)
          /\ batch_number
               = ((ReadsOfDoneBatches + batch_size - 1) \div batch_size) + 1
          /\ pc = "read" =>
                /\ results = <<>>
                /\ Len(reads_data) < batch_size
                /\ GlobalTally
                     = FoldReads(EmptyTally, StreamPrefix(ReadsOfDoneBatches))
          /\ pc = "pool_map" =>
                /\ Len(results) = Len(reads_data)
                /\ GlobalTally
                     = FoldReads(EmptyTally, StreamPrefix(ReadsOfDoneBatches))
          /\ pc = "merge" =>
                /\ Len(results) = Len(reads_data)
                /\ \A i \in 1..Len(results) : results[i] # Pending
                /\ GlobalTally = FoldReads(EmptyTally, StreamPrefix(ReadsMerged)))
    /\ [][/\ read_idx' # read_idx =>
                pc = "read" /\ results = <<>> /\ read_idx' = read_idx + 1
          /\ (pc = "pool_map" /\ pc' = "pool_map") =>
                read_idx' = read_idx /\ reads_data' = reads_data]_vars

\* The partial tally of the second batch has been merged after the two of
\* the first.
C12_Witness ==
    /\ pc = "merge"
    /\ batch_size = 2
    /\ batch_number = 2
    /\ merge_idx = 2
    /\ results[1].value # EmptyTally
    /\ ReadsMerged = 3

\* C13: the reads taken from the stream whose partial tally is not merged
\* yet (buffered, in the pool, or waiting for the merge) are never more
\* than batch_size.
C13_InFlightWithinBatchSize ==
    /\ read_idx - ReadsMerged <= batch_size
    /\ Len(reads_data) <= batch_size
    /\ Len(results) <= batch_size

\* A full batch is in the pool while the stream still has reads.
C13_Witness ==
    /\ pc = "pool_map"
    /\ batch_size = 2
    /\ read_idx - ReadsMerged = 2
    /\ read_idx < Len(samfile)
    /\ \E i \in 1..Len(results) : results[i] # Pending

\* C14: a step changes the global tally only if it is an iteration of the
\* merge loop of process_batch; the reference sequence never changes; a
\* worker step fills one slot of results with the tally of its read and
\* leaves the global tally alone.
C14_MergeIsTheOnlyWriter ==
    [][/\ GlobalTally' # GlobalTally =>
             /\ pc = "merge" /\ pc' = "merge"
             /\ merge_idx' = merge_idx + 1
             /\ GlobalTally' = MergeInto(GlobalTally, results[merge_idx].value)
       /\ reference_sequence' = reference_sequence
       /\ (pc = "pool_map" /\ pc' = "pool_map") =>
             /\ GlobalTally' = GlobalTally
             /\ \E i \in 1..Len(results) :
                   /\ results[i] = Pending
                   /\ results' = [results EXCEPT
                                     ![i] = process_read_data(reads_data[i])]]_vars

\* A worker has returned a non-empty tally and the global tally is empty.
C14_Witness ==
    /\ pc = "pool_map"
    /\ position_coverage = EmptyDict
    /\ \E i \in 1..Len(results) :
          results[i] # Pending /\ results[i].value # EmptyTally

\* The first read of the stream that fails, 0 if none does.
FirstFailing ==
    IF \E k \in 1..Len(samfile) : ReadFails(samfile[k])
    THEN CHOOSE k \in 1..Len(samfile) :
            ReadFails(samfile[k]) /\ \A j \in 1..(k - 1) : ~ReadFails(samfile[j])
    ELSE 0

\* The reads of the batches before the one that holds the first failing read.
ReadsBeforeFailingBatch == ((FirstFailing - 1) \div batch_size) * batch_size

\* C15: the outcome depends on the stream and batch_size only, not on the
\* order in which the workers of a batch run: once pool.map has returned,
\* slot i holds the tally of the i-th read of the batch; a run ends by an
\* exception exactly when a read of the stream fails, with the tally of the
\* batches before the failing one; otherwise it ends with the tally of the
\* whole stream.
C15_OutcomeIndependentOfWorkerOrder ==
    /\ pc \in {"merge", "raised"} =>
          \A i \in 1..Len(results) :
              results[i] = process_read_data(reads_data[i])
    /\ pc = "raised" =>
          /\ FirstFailing > 0
          /\ GlobalTally
               = FoldReads(EmptyTally, StreamPrefix(ReadsBeforeFailingBatch))
    /\ pc \in {"finished", "done"} =>
          /\ FirstFailing = 0
          /\ GlobalTally = FoldReads(EmptyTally, StreamPrefix(Len(samfile)))

\* The second worker of a batch has finished before the first.
C15_Witness ==
    /\ pc = "pool_map"
    /\ Len(results) >= 2
    /\ results[1] = Pending
    /\ results[2] # Pending
    /\ results[2].value # EmptyTally
    /\ reads_data[1] # reads_data[2]

\* C17: every key of position_coverage has coverage >= 1; every key of
\* mutation_counts has a count >= 1 and is a key of position_coverage;
\* base_mutation_counts has the keys of mutation_counts, each with the four
\* bases and at least one count >= 1.
C17_EntriesOnlyForObservedPositions ==
    /\ \A p \in DOMAIN position_coverage : position_coverage[p] >= 1
    /\ \A p \in DOMAIN mutation_counts : mutation_counts[p] >= 1
    /\ DOMAIN mutation_counts \subseteq DOMAIN position_coverage
    /\ DOMAIN base_mutation_counts = DOMAIN mutation_counts
    /\ \A p \in DOMAIN base_mutation_counts :
          /\ DOMAIN base_mutation_counts[p] = BaseKeys
          /\ \E b \in BaseKeys : base_mutation_counts[p][b] >= 1

\* Reads have been merged that cover positions without a mismatch.
C17_Witness ==
    /\ pc = "finished"
    /\ mutation_counts # EmptyDict
    /\ DOMAIN mutation_counts # DOMAIN position_coverage
    /\ \E p \in DOMAIN position_coverage : position_coverage[p] >= 2

HasUnknownCode(rd) ==
    /\ ~ReadAbsent(rd)
    /\ \E k \in 1..Len(Val(rd.cigartuples)) :
          Val(rd.cigartuples)[k][1] \notin {0, 1, 2, 4, 5}

\* C19: a read whose operation list has an unknown kind code fails in the
\* worker; a batch is merged only if none of its reads failed; a run ended
\* by a worker's exception has merged none of the failing batch's tallies
\* and all of the earlier batches', and goes no further.
C19_FailingBatchIsNotMerged ==
    /\ [](/\ \A i \in 1..Len(results) :
                (results[i] # Pending /\ HasUnknownCode(reads_data[i]))
                    => results[i].err = "KeyError_cigar_ops"
          /\ pc = "merge" =>
                \A i \in 1..Len(results) : results[i].err = "none"
          /\ pc = "raised" =>
                /\ \E i \in 1..Len(results) : results[i].err # "none"
                /\ mutation_frequencies = None
                /\ GlobalTally
                     = FoldReads(EmptyTally, StreamPrefix(ReadsOfDoneBatches)))
    /\ [][pc = "raised" => vars' = vars]_vars

\* The second batch failed on an unknown kind code and the two reads of the
\* first batch stay merged.
C19_Witness ==
    /\ pc = "raised"
    /\ batch_number = 2
    /\ ReadsOfDoneBatches = 2
    /\ position_coverage # EmptyDict
    /\ \E i \in 1..Len(results) : results[i].err = "KeyError_cigar_ops"

\* C20: the partial tally of a read has coverage at most 1 and mismatches at
\* most 1 at every position, and the global coverage of a position is at
\* most the number of reads merged.
C20_CoverageWithinReadsMerged ==
    /\ \A i \in 1..Len(results) :
          /\ \A p \in DOMAIN results[i].value[1] : results[i].value[1][p] <= 1
          /\ \A p \in DOMAIN results[i].value[2] : results[i].value[2][p] <= 1
    /\ \A p \in DOMAIN position_coverage : position_coverage[p] <= ReadsMerged

\* Two reads are merged; one position is covered by both, another by one.
C20_Witness ==
    /\ ReadsMerged = 2
    /\ \E p \in DOMAIN position_coverage : position_coverage[p] = 2
    /\ \E p \in DOMAIN position_coverage : position_coverage[p] = 1

----------------------------------------------------------------------------
(* Effect of one tallied pair (SpecWalk)                                   *)

\* The walk is about to handle an M operation of length 1 whose pair lies in
\* the reference and in the query.
OnePairStep ==
    /\ walk_pc = "walking"
    /\ cigar_idx <= Len(cigar)
    /\ cigar[cigar_idx] = <<"M", 1>>
    /\ 0 <= ref_pos /\ ref_pos < Len(reference_sequence)
    /\ query_pos < Len(Val(read_data.query_sequence))

\* C16: a tallied pair (ref_pos, query_base) raises the coverage of position
\* ref_pos + 1 by exactly 1; it raises the mismatch count of the position
\* and the count of query_base at the position by exactly 1 if query_base
\* differs from reference[ref_pos], and leaves both alone otherwise; no
\* other entry changes.
C16_PairRaisesCountsByOne ==
    [][OnePairStep =>
         LET p == ref_pos + 1
             query_base == Val(read_data.query_sequence)[query_pos + 1]
             old_row == Get(local_base_mutation_counts, p, ZeroBaseCounts)
         IN  /\ walk_pc' = "walking"
             /\ local_position_coverage'
                  = Put(local_position_coverage, p,
                        Get(local_position_coverage, p, 0) + 1)
             /\ IF query_base # reference_sequence[p]
                THEN /\ local_mutation_counts'
                          = Put(local_mutation_counts, p,
                                Get(local_mutation_counts, p, 0) + 1)
                     /\ local_base_mutation_counts'
                          = Put(local_base_mutation_counts, p,
                                [old_row EXCEPT ![query_base] = @ + 1])
                ELSE /\ local_mutation_counts' = local_mutation_counts
                     /\ local_base_mutation_counts'
                          = local_base_mutation_counts]_vars

====
